---- MODULE Spec2Model ----
(***************************************************************************)
(* Auto Dark Titlebar (mods/asteski-auto-dark-titlebar.wh.cpp).            *)
(*                                                                         *)
(* The mod keeps a cached theme (g_isDarkMode), intercepts DefWindowProcW  *)
(* and NtUserCreateWindowEx, and sets DWMWA_USE_IMMERSIVE_DARK_MODE on the *)
(* windows of the process it is loaded in.  The model keeps the globals of *)
(* the mod, the windows of the desktop (style bits, parent, owner process, *)
(* attribute), the registry value and the uxtheme probe the theme is read  *)
(* from, and, for the call that has just returned, the sequence of the     *)
(* platform calls it made.                                                 *)
(***************************************************************************)
EXTENDS Integers, Sequences, FiniteSets, TLC

\* Number of window handles the desktop can hold at one time.
MaxWindows == 1

\* Number of threads of the process that run a message loop.
NumThreads == 2

Handles == 1..MaxWindows

Threads == 1..NumThreads

\* The null handle (nullptr / failed creation).
NULL == 0

---------------------------------------------------------------------------
(* Window styles (winuser.h).  A style word is modelled as the set of its  *)
(* bits; style & MASK is the intersection with MASK.  WS_CAPTION is the    *)
(* two-bit mask WS_BORDER | WS_DLGFRAME (0x00C00000): a window has a title *)
(* bar only when both bits are set.                                        *)

WS_BORDER == {"WS_BORDER"}
WS_DLGFRAME == {"WS_DLGFRAME"}
WS_CAPTION == WS_BORDER \cup WS_DLGFRAME
WS_CHILD == {"WS_CHILD"}
WS_EX_TOOLWINDOW == {"WS_EX_TOOLWINDOW"}

WM_DWMCOLORIZATIONCOLORCHANGED == "WM_DWMCOLORIZATIONCOLORCHANGED"
WM_SETTINGCHANGE == "WM_SETTINGCHANGE"
WM_OTHER == "WM_OTHER"
Messages == {WM_DWMCOLORIZATIONCOLORCHANGED, WM_SETTINGCHANGE, WM_OTHER}

\* Values the original default message handler can return.
LResults == {0, 1}

\* A slot of the handle table that holds no window: IsWindow is false.
NoWindow ==
    [pid |-> "dead", style |-> {}, exStyle |-> {}, parent |-> "Desktop", attr |-> FALSE]

\* Arguments of a window creation: dwStyle, dwExStyle and the kind of parent
\* (hWndParent null: top-level under the desktop; a window: child;
\* HWND_MESSAGE: message-only).
CreateArgs ==
    { [style |-> WS_CAPTION, exStyle |-> {}, parent |-> "Desktop"],
      [style |-> WS_BORDER, exStyle |-> {}, parent |-> "Desktop"],
      [style |-> {}, exStyle |-> {}, parent |-> "Desktop"],
      [style |-> WS_CAPTION, exStyle |-> WS_EX_TOOLWINDOW, parent |-> "Desktop"],
      [style |-> WS_CAPTION \cup WS_CHILD, exStyle |-> {}, parent |-> "Window"],
      [style |-> WS_CAPTION, exStyle |-> {}, parent |-> "Message"] }

\* Paths of the executable the mod is loaded in.
SystemSettingsPath ==
    <<"C",":","\\","W","i","n","d","o","w","s","\\","I","m","m","e","r","s","i","v","e","C","o","n","t","r","o","l","P","a","n","e","l","\\","S","y","s","t","e","m","S","e","t","t","i","n","g","s",".","e","x","e">>
ApplicationFrameHostPath ==
    <<"C",":","\\","W","i","n","d","o","w","s","\\","S","y","s","t","e","m","3","2","\\","A","p","p","l","i","c","a","t","i","o","n","F","r","a","m","e","H","o","s","t",".","e","x","e">>
ExePaths ==
    { SystemSettingsPath,
      ApplicationFrameHostPath,
      <<"C",":","\\","s","y","s","t","e","m","s","e","t","t","i","n","g","s",".","e","x","e","\\","n","o","t","e","p","a","d",".","e","x","e">> }

\* What reading AppsUseLightTheme yields: the key cannot be opened, the value
\* cannot be queried, or the DWORD read.
RegistryFailures == {"NoKey", "NoValue"}
RegistryValues == {0, 1, 2}
RegistryStates ==
    [status : RegistryFailures, value : {0}] \cup [status : {"Ok"}, value : RegistryValues]

\* uxtheme.dll: not loaded, ordinal 138 missing, or what the probe answers.
UxthemeStates == {"NoModule", "NoOrdinal", "Dark", "Light"}

---------------------------------------------------------------------------
VARIABLES
    g_isDarkMode,               \* the cached theme
    g_ShouldSystemUseDarkMode,  \* TRUE when the probe pointer is non-null
    isExcluded,                 \* static of IsProcessExcluded: -1, 0, 1
    DefWindowProc_orig,         \* TRUE when the DefWindowProcW hook is set
    NtUserCreateWindowEx_orig,  \* TRUE when the creation hook is set
    windows,                    \* handle -> window
    phase,                      \* lifecycle of the mod in this process
    exePath,                    \* path of the executable of the process
    moduleFileNameOk,           \* FALSE when GetModuleFileNameW returns 0
    registry,                   \* outcome of reading AppsUseLightTheme
    uxtheme,                    \* state of the uxtheme probe
    pending,                    \* TRUE while a theme-change message is undelivered
    last,                       \* the call that has just returned
    threads                     \* thread -> where the thread is inside a hook

vars ==
    <<g_isDarkMode, g_ShouldSystemUseDarkMode, isExcluded, DefWindowProc_orig,
      NtUserCreateWindowEx_orig, windows, phase, exePath, moduleFileNameOk,
      registry, uxtheme, pending, last, threads>>

---------------------------------------------------------------------------
(* The calls a handler makes are recorded as events [e, w, v]: the call,   *)
(* the window handle (NULL when none) and the value passed or returned     *)
(* (booleans as 0/1).                                                      *)

B(b) == IF b THEN 1 ELSE 0

Ev(e, w, v) == [e |-> e, w |-> w, v |-> v]

Log(m, e, w, v) == [m EXCEPT !.trace = Append(@, Ev(e, w, v))]

\* The globals of the mod and the windows, as one value the code's functions
\* take and give back.
M ==
    [g_isDarkMode |-> g_isDarkMode,
     g_ShouldSystemUseDarkMode |-> g_ShouldSystemUseDarkMode,
     isExcluded |-> isExcluded,
     DefWindowProc_orig |-> DefWindowProc_orig,
     NtUserCreateWindowEx_orig |-> NtUserCreateWindowEx_orig,
     windows |-> windows,
     trace |-> <<>>]

---------------------------------------------------------------------------
(* IsSystemDarkMode, lines 46-79 *)

\* IsSystemDarkMode without the check of what RegQueryValueExW returns: value
\* keeps its initial 0 when the read fails.
IsSystemDarkMode_IgnoreFailure(m) ==
    LET value == IF registry.status = "Ok" THEN registry.value ELSE 0
    IN  [m |-> Log(Log(m, "RegQueryValueExW", NULL, value),
                   "IsSystemDarkMode", NULL, B(value = 0)),
         ret |-> (value = 0)]

\* IsSystemDarkMode resolving the probe at every call that reaches the
\* fallback, whether or not the pointer is already set.
IsSystemDarkMode_AlwaysResolve(m) ==
    IF registry.status \notin RegistryFailures
    THEN [m |-> Log(Log(m, "RegQueryValueExW", NULL, registry.value),
                    "IsSystemDarkMode", NULL, B(registry.value = 0)),
          ret |-> (registry.value = 0)]
    ELSE
        LET m1 == IF uxtheme # "NoModule"
                  THEN [Log(m, "GetProcAddress", NULL, B(uxtheme # "NoOrdinal"))
                           EXCEPT !.g_ShouldSystemUseDarkMode = (uxtheme # "NoOrdinal")]
                  ELSE Log(m, "GetModuleHandleW", NULL, 0)
        IN  IF m1.g_ShouldSystemUseDarkMode
            THEN [m |-> Log(Log(m1, "ShouldSystemUseDarkMode", NULL, B(uxtheme = "Dark")),
                            "IsSystemDarkMode", NULL, B(uxtheme = "Dark")),
                  ret |-> (uxtheme = "Dark")]
            ELSE [m |-> Log(m1, "IsSystemDarkMode", NULL, 0), ret |-> FALSE]

IsSystemDarkMode(m) ==
    IF registry.status \notin RegistryFailures
    THEN [m |-> Log(Log(m, "RegQueryValueExW", NULL, registry.value),
                    "IsSystemDarkMode", NULL, B(registry.value = 0)),
          ret |-> (registry.value = 0)]
    ELSE
        LET m1 == IF ~m.g_ShouldSystemUseDarkMode
                  THEN IF uxtheme # "NoModule"
                       THEN [Log(m, "GetProcAddress", NULL, B(uxtheme # "NoOrdinal"))
                                EXCEPT !.g_ShouldSystemUseDarkMode = (uxtheme # "NoOrdinal")]
                       ELSE Log(m, "GetModuleHandleW", NULL, 0)
                  ELSE m
        IN  IF m1.g_ShouldSystemUseDarkMode
            THEN [m |-> Log(Log(m1, "ShouldSystemUseDarkMode", NULL, B(uxtheme = "Dark")),
                            "IsSystemDarkMode", NULL, B(uxtheme = "Dark")),
                  ret |-> (uxtheme = "Dark")]
            ELSE [m |-> Log(m1, "IsSystemDarkMode", NULL, 0), ret |-> FALSE]

---------------------------------------------------------------------------
(* IsProcessExcluded, lines 82-125 *)

UpperCase ==
    <<"A","B","C","D","E","F","G","H","I","J","K","L","M","N","O","P","Q","R","S","T","U","V","W","X","Y","Z">>
LowerCase ==
    <<"a","b","c","d","e","f","g","h","i","j","k","l","m","n","o","p","q","r","s","t","u","v","w","x","y","z">>

towlower(c) ==
    IF \E i \in 1..Len(UpperCase) : UpperCase[i] = c
    THEN LowerCase[CHOOSE i \in 1..Len(UpperCase) : UpperCase[i] = c]
    ELSE c

\* Index of the last occurrence of c in s, 0 when there is none.
wcsrchr(s, c) ==
    IF \E i \in 1..Len(s) : s[i] = c
    THEN CHOOSE i \in 1..Len(s) : s[i] = c /\ \A j \in (i+1)..Len(s) : s[j] # c
    ELSE 0

\* Lines 96-106: the part after the last backslash, lowercased.
FileName(path) ==
    LET i == wcsrchr(path, "\\")
        name == IF i # 0 THEN SubSeq(path, i + 1, Len(path)) ELSE path
    IN  [k \in 1..Len(name) |-> towlower(name[k])]

excludedProcesses ==
    << <<"s","y","s","t","e","m","s","e","t","t","i","n","g","s",".","e","x","e">>,
       <<"a","p","p","l","i","c","a","t","i","o","n","f","r","a","m","e","h","o","s","t",".","e","x","e">> >>

\* IsProcessExcluded without the conversion to lowercase.
IsProcessExcluded_CaseSensitive(m) ==
    LET i == wcsrchr(exePath, "\\")
        name == IF i # 0 THEN SubSeq(exePath, i + 1, Len(exePath)) ELSE exePath
    IN  IF m.isExcluded # -1
        THEN [m |-> m, ret |-> (m.isExcluded = 1)]
        ELSE IF ~moduleFileNameOk
        THEN [m |-> [m EXCEPT !.isExcluded = 0], ret |-> FALSE]
        ELSE IF \E k \in 1..Len(excludedProcesses) : name = excludedProcesses[k]
        THEN [m |-> [m EXCEPT !.isExcluded = 1], ret |-> TRUE]
        ELSE [m |-> [m EXCEPT !.isExcluded = 0], ret |-> FALSE]

IsProcessExcluded(m) ==
    IF m.isExcluded # -1
    THEN [m |-> m, ret |-> (m.isExcluded = 1)]
    ELSE IF ~moduleFileNameOk
    THEN [m |-> [m EXCEPT !.isExcluded = 0], ret |-> FALSE]
    ELSE IF \E i \in 1..Len(excludedProcesses) : FileName(exePath) = excludedProcesses[i]
    THEN [m |-> [m EXCEPT !.isExcluded = 1], ret |-> TRUE]
    ELSE [m |-> [m EXCEPT !.isExcluded = 0], ret |-> FALSE]

---------------------------------------------------------------------------
(* IsWindowEligible, lines 128-149 *)

IsWindow(win, hWnd) == hWnd \in Handles /\ win[hWnd].pid # "dead"

IsWindowEligible(win, hWnd) ==
    IF hWnd = NULL \/ ~IsWindow(win, hWnd) THEN FALSE
    ELSE IF win[hWnd].style \cap WS_CAPTION = {} THEN FALSE
    ELSE IF win[hWnd].exStyle \cap WS_EX_TOOLWINDOW # {} THEN FALSE
    ELSE IF win[hWnd].style \cap WS_CHILD # {} THEN FALSE
    ELSE TRUE

(* ApplyDarkMode, lines 152-166.  failing: the windows on which            *)
(* DwmSetWindowAttribute fails during this call.                           *)

\* ApplyDarkMode flipping the attribute when asked for dark instead of setting
\* it.
ApplyDarkMode_Toggle(m, hWnd, useDarkMode, failing) ==
    LET m1 == Log(m, "IsWindowEligible", hWnd, B(IsWindowEligible(m.windows, hWnd)))
    IN  IF ~IsWindowEligible(m.windows, hWnd) THEN m1
        ELSE
            LET m2 == Log(m1, "DwmSetWindowAttribute", hWnd, B(useDarkMode))
            IN  IF hWnd \notin failing
                THEN Log([m2 EXCEPT !.windows[hWnd].attr = (@ # useDarkMode)],
                         "SetWindowPos", hWnd, 0)
                ELSE m2

ApplyDarkMode(m, hWnd, useDarkMode, failing) ==
    LET m1 == Log(m, "IsWindowEligible", hWnd, B(IsWindowEligible(m.windows, hWnd)))
    IN  IF ~IsWindowEligible(m.windows, hWnd) THEN m1
        ELSE
            LET m2 == Log(m1, "DwmSetWindowAttribute", hWnd, B(useDarkMode))
            IN  IF hWnd \notin failing
                THEN Log([m2 EXCEPT !.windows[hWnd].attr = useDarkMode],
                         "SetWindowPos", hWnd, 0)
                ELSE m2

---------------------------------------------------------------------------
(* EnumWindowsProc, lines 184-200, and ApplyToAllWindows, lines 203-205 *)

\* EnumWindowsProc without the comparison of the process ids.
EnumWindowsProc_AnyProcess(m, hWnd, useDarkMode, failing) ==
    IF m.windows[hWnd].parent # "Desktop" THEN m
    ELSE IF ~IsWindow(m.windows, hWnd) THEN m
    ELSE ApplyDarkMode(m, hWnd, useDarkMode, failing)

EnumWindowsProc(m, hWnd, useDarkMode, failing) ==
    IF m.windows[hWnd].parent # "Desktop" THEN m
    ELSE IF ~IsWindow(m.windows, hWnd) \/ m.windows[hWnd].pid # "self" THEN m
    ELSE ApplyDarkMode(m, hWnd, useDarkMode, failing)

\* EnumWindows: the top-level windows of the desktop, of every process.
EnumWindows(win) ==
    SelectSeq([h \in Handles |-> h],
              LAMBDA h : IsWindow(win, h) /\ win[h].parent = "Desktop")

RECURSIVE EnumLoop(_, _, _, _)
EnumLoop(m, hs, useDarkMode, failing) ==
    IF hs = <<>> THEN m
    ELSE EnumLoop(EnumWindowsProc(m, Head(hs), useDarkMode, failing),
                  Tail(hs), useDarkMode, failing)

ApplyToAllWindows(m, useDarkMode, failing) ==
    EnumLoop(Log(m, "EnumWindows", NULL, B(useDarkMode)),
             EnumWindows(m.windows), useDarkMode, failing)

---------------------------------------------------------------------------
(* NewWindowShown, lines 169-181 *)

\* NewWindowShown restyling every window instead of the new one.
NewWindowShown_Sweep(m, hWnd, failing) ==
    LET x == IsProcessExcluded(m)
    IN  IF x.ret THEN x.m
        ELSE IF hWnd = NULL \/ ~IsWindow(x.m.windows, hWnd) THEN x.m
        ELSE ApplyToAllWindows(x.m, x.m.g_isDarkMode, failing)

NewWindowShown(m, hWnd, failing) ==
    LET x == IsProcessExcluded(m)
    IN  IF x.ret THEN x.m
        ELSE IF hWnd = NULL \/ ~IsWindow(x.m.windows, hWnd) THEN x.m
        ELSE
            LET m1 == Log(x.m, "IsWindowEligible", hWnd,
                          B(IsWindowEligible(x.m.windows, hWnd)))
            IN  IF ~IsWindowEligible(x.m.windows, hWnd) THEN m1
                ELSE ApplyDarkMode(m1, hWnd, m1.g_isDarkMode, failing)

---------------------------------------------------------------------------
(* DefWindowProc_hook, lines 211-227 *)

\* The un-intercepted DefWindowProcW: returns the value lResult.
DefWindowProcW(m, hWnd, Msg, lResult) ==
    [m |-> Log(m, "DefWindowProc_orig", NULL, lResult), ret |-> lResult]

\* DefWindowProc_hook without the comparison with the cached theme.
DefWindowProc_hook_NoCompare(m, hWnd, Msg, lResult, failing) ==
    LET x == IsProcessExcluded(m)
        m1 == IF ~x.ret /\ (Msg = WM_DWMCOLORIZATIONCOLORCHANGED \/ Msg = WM_SETTINGCHANGE)
              THEN LET o == IsSystemDarkMode(x.m)
                       m3 == Log([o.m EXCEPT !.g_isDarkMode = o.ret],
                                 "g_isDarkMode", NULL, B(o.ret))
                   IN  ApplyToAllWindows(m3, m3.g_isDarkMode, failing)
              ELSE x.m
        r == DefWindowProcW(m1, hWnd, Msg, lResult)
    IN  [m |-> r.m, ret |-> r.ret]

\* DefWindowProc_hook answering a theme change by itself, without the original.
DefWindowProc_hook_ShortCircuit(m, hWnd, Msg, lResult, failing) ==
    LET x == IsProcessExcluded(m)
        o == IsSystemDarkMode(x.m)
    IN  IF ~x.ret /\ (Msg = WM_DWMCOLORIZATIONCOLORCHANGED \/ Msg = WM_SETTINGCHANGE)
        THEN IF o.ret # o.m.g_isDarkMode
             THEN LET m3 == Log([o.m EXCEPT !.g_isDarkMode = o.ret],
                                "g_isDarkMode", NULL, B(o.ret))
                  IN  [m |-> ApplyToAllWindows(m3, m3.g_isDarkMode, failing), ret |-> 0]
             ELSE DefWindowProcW(o.m, hWnd, Msg, lResult)
        ELSE DefWindowProcW(x.m, hWnd, Msg, lResult)

\* DefWindowProc_hook sweeping with the new theme without storing it.
DefWindowProc_hook_NoStore(m, hWnd, Msg, lResult, failing) ==
    LET x == IsProcessExcluded(m)
        m1 == IF ~x.ret /\ (Msg = WM_DWMCOLORIZATIONCOLORCHANGED \/ Msg = WM_SETTINGCHANGE)
              THEN LET o == IsSystemDarkMode(x.m)
                   IN  IF o.ret # o.m.g_isDarkMode
                       THEN ApplyToAllWindows(o.m, o.ret, failing)
                       ELSE o.m
              ELSE x.m
        r == DefWindowProcW(m1, hWnd, Msg, lResult)
    IN  [m |-> r.m, ret |-> r.ret]

DefWindowProc_hook(m, hWnd, Msg, lResult, failing) ==
    LET x == IsProcessExcluded(m)
        m1 == IF ~x.ret /\ (Msg = WM_DWMCOLORIZATIONCOLORCHANGED \/ Msg = WM_SETTINGCHANGE)
              THEN LET o == IsSystemDarkMode(x.m)
                       m2 == o.m
                   IN  IF o.ret # m2.g_isDarkMode
                       THEN LET m3 == Log([m2 EXCEPT !.g_isDarkMode = o.ret],
                                          "g_isDarkMode", NULL, B(o.ret))
                            IN  ApplyToAllWindows(m3, m3.g_isDarkMode, failing)
                       ELSE m2
              ELSE x.m
        r == DefWindowProcW(m1, hWnd, Msg, lResult)
    IN  [m |-> r.m, ret |-> r.ret]

---------------------------------------------------------------------------
(* NtUserCreateWindowEx_hook, lines 238-255 *)

\* The un-intercepted creation primitive: hNew is the handle the system
\* gives the window, NULL when the creation fails.
NtUserCreateWindowEx(m, args, hNew) ==
    IF hNew = NULL
    THEN [m |-> Log(m, "NtUserCreateWindowEx_orig", NULL, 0), ret |-> NULL]
    ELSE [m |-> Log([m EXCEPT !.windows[hNew] =
                        [pid |-> "self", style |-> args.style, exStyle |-> args.exStyle,
                         parent |-> args.parent, attr |-> FALSE]],
                    "NtUserCreateWindowEx_orig", hNew, 0),
          ret |-> hNew]

\* NtUserCreateWindowEx_hook styling whatever the original returned.
NtUserCreateWindowEx_hook_NoNullCheck(m, args, hNew, failing) ==
    LET r == NtUserCreateWindowEx(m, args, hNew)
        hWnd == r.ret
        x == IsProcessExcluded(r.m)
    IN  IF x.ret THEN [m |-> x.m, ret |-> hWnd]
        ELSE [m |-> ApplyDarkMode(x.m, hWnd, x.m.g_isDarkMode, failing), ret |-> hWnd]

NtUserCreateWindowEx_hook(m, args, hNew, failing) ==
    LET r == NtUserCreateWindowEx(m, args, hNew)
        hWnd == r.ret
    IN  IF hWnd # NULL
        THEN [m |-> NewWindowShown(r.m, hWnd, failing), ret |-> hWnd]
        ELSE [m |-> r.m, ret |-> hWnd]

---------------------------------------------------------------------------
(* Wh_ModInit, lines 258-306.  hook1Ok: Wh_SetFunctionHook succeeds for    *)
(* DefWindowProcW; win32u: what resolving and hooking NtUserCreateWindowEx *)
(* meets.                                                                  *)

Win32uOutcomes == {"NoModule", "NoSymbol", "HookFails", "Hooked"}

\* Wh_ModInit giving up when the first installation fails.
Wh_ModInit_AbortOnHookFailure(m, hook1Ok, win32u) ==
    LET x == IsProcessExcluded(m)
    IN  IF x.ret THEN [m |-> x.m, ret |-> TRUE]
        ELSE
            LET o == IsSystemDarkMode(x.m)
                m1 == Log([o.m EXCEPT !.g_isDarkMode = o.ret], "g_isDarkMode", NULL, B(o.ret))
                m2 == Log([m1 EXCEPT !.DefWindowProc_orig = hook1Ok],
                          "Wh_SetFunctionHook:DefWindowProcW", NULL, B(hook1Ok))
            IN  IF ~hook1Ok THEN [m |-> m2, ret |-> FALSE]
                ELSE IF win32u = "NoModule"
                THEN [m |-> Log(m2, "GetModuleHandleW:win32u", NULL, 0), ret |-> TRUE]
                ELSE IF win32u = "NoSymbol"
                THEN [m |-> Log(m2, "GetProcAddress:NtUserCreateWindowEx", NULL, 0),
                      ret |-> TRUE]
                ELSE [m |-> Log([m2 EXCEPT !.NtUserCreateWindowEx_orig = (win32u = "Hooked")],
                                "Wh_SetFunctionHook:NtUserCreateWindowEx", NULL,
                                B(win32u = "Hooked")),
                      ret |-> TRUE]

Wh_ModInit(m, hook1Ok, win32u) ==
    LET x == IsProcessExcluded(m)
    IN  IF x.ret THEN [m |-> x.m, ret |-> TRUE]
        ELSE
            LET o == IsSystemDarkMode(x.m)
                m1 == Log([o.m EXCEPT !.g_isDarkMode = o.ret], "g_isDarkMode", NULL, B(o.ret))
                m2 == Log([m1 EXCEPT !.DefWindowProc_orig = hook1Ok],
                          "Wh_SetFunctionHook:DefWindowProcW", NULL, B(hook1Ok))
            IN  IF win32u = "NoModule"
                THEN [m |-> Log(m2, "GetModuleHandleW:win32u", NULL, 0), ret |-> TRUE]
                ELSE IF win32u = "NoSymbol"
                THEN [m |-> Log(m2, "GetProcAddress:NtUserCreateWindowEx", NULL, 0),
                      ret |-> TRUE]
                ELSE [m |-> Log([m2 EXCEPT !.NtUserCreateWindowEx_orig = (win32u = "Hooked")],
                                "Wh_SetFunctionHook:NtUserCreateWindowEx", NULL,
                                B(win32u = "Hooked")),
                      ret |-> TRUE]

(* Wh_ModAfterInit, lines 309-317 *)

\* Wh_ModAfterInit without the sweep.
Wh_ModAfterInit_NoSweep(m, failing) ==
    LET x == IsProcessExcluded(m)
    IN  x.m

Wh_ModAfterInit(m, failing) ==
    LET x == IsProcessExcluded(m)
    IN  IF x.ret THEN x.m
        ELSE ApplyToAllWindows(x.m, x.m.g_isDarkMode, failing)

(* Wh_ModUninit, lines 320-331 *)

\* Wh_ModUninit resetting the cached theme together with the windows.
Wh_ModUninit_ClearsCache(m, failing) ==
    LET x == IsProcessExcluded(m)
    IN  IF x.ret THEN x.m
        ELSE ApplyToAllWindows(Log([x.m EXCEPT !.g_isDarkMode = FALSE],
                                   "g_isDarkMode", NULL, 0),
                               FALSE, failing)

Wh_ModUninit(m, failing) ==
    LET x == IsProcessExcluded(m)
    IN  IF x.ret THEN x.m
        ELSE ApplyToAllWindows(x.m, FALSE, failing)

---------------------------------------------------------------------------
(* The state machine.  Each call of the mod is one step; the steps of the  *)
(* host and of the system (windows destroyed, windows of other processes,  *)
(* the user switching the theme) are steps of their own.                   *)

NoCall == [op |-> "none", hooked |-> FALSE, msg |-> "", ret |-> 0, trace |-> <<>>]

Call(op, hooked, msg, ret, trace) ==
    [op |-> op, hooked |-> hooked, msg |-> msg, ret |-> ret, trace |-> trace]

Commit(m) ==
    /\ g_isDarkMode' = m.g_isDarkMode
    /\ g_ShouldSystemUseDarkMode' = m.g_ShouldSystemUseDarkMode
    /\ isExcluded' = m.isExcluded
    /\ DefWindowProc_orig' = m.DefWindowProc_orig
    /\ NtUserCreateWindowEx_orig' = m.NtUserCreateWindowEx_orig
    /\ windows' = m.windows

\* A thread that is inside no hook.
Idle ==
    [pc |-> "idle", newDarkMode |-> FALSE, useDarkMode |-> FALSE, todo |-> <<>>,
     hWnd |-> NULL]

\* The hooks are in place from the return of Wh_ModInit to the unload.
Loaded == phase \in {"loaded", "running"}

\* The top-level windows of the process: those a broadcast reaches.
OwnTopLevel(win) ==
    {h \in Handles : win[h].pid = "self" /\ win[h].parent = "Desktop"}

FreeHandles == {h \in Handles : windows[h].pid = "dead"}

\* The windows a sweep calls DwmSetWindowAttribute on.
SetTargets == {h \in OwnTopLevel(windows) : IsWindowEligible(windows, h)}

\* The process is followed from the moment before the mod is loaded into it.
\* The probe is only looked at when the read fails, and the statuses of the
\* read are paired with the states of the probe; the process whose path cannot
\* be retrieved is taken on a system with neither source of the theme.
Init ==
    /\ g_isDarkMode = FALSE
    /\ g_ShouldSystemUseDarkMode = FALSE
    /\ isExcluded = -1
    /\ DefWindowProc_orig = FALSE
    /\ NtUserCreateWindowEx_orig = FALSE
    /\ windows = [h \in Handles |-> NoWindow]
    /\ phase = "unloaded"
    /\ exePath \in ExePaths
    /\ moduleFileNameOk \in BOOLEAN
    /\ registry \in RegistryStates
    /\ uxtheme \in UxthemeStates
    /\ registry.status = "Ok" => uxtheme = "Light"
    /\ registry.status = "NoKey" => uxtheme # "NoOrdinal"
    /\ registry.status = "NoValue" => uxtheme = "NoOrdinal"
    /\ ~moduleFileNameOk =>
          exePath = SystemSettingsPath /\ registry.status = "NoKey" /\ uxtheme = "NoModule"
    /\ pending = FALSE
    /\ last = NoCall
    /\ threads = [t \in Threads |-> Idle]

\* The framework loads the mod: Wh_ModInit.
OnLoad(hook1Ok, win32u) ==
    /\ phase = "unloaded"
    /\ LET r == Wh_ModInit(M, hook1Ok, win32u)
       IN  /\ Commit(r.m)
           /\ last' = Call("Wh_ModInit", FALSE, "", B(r.ret), r.m.trace)
    /\ phase' = "loaded"
    /\ UNCHANGED <<exePath, moduleFileNameOk, registry, uxtheme, pending, threads>>

\* Wh_ModAfterInit.
OnLoadComplete(failing) ==
    /\ phase = "loaded"
    /\ failing \subseteq SetTargets
    /\ LET m == Wh_ModAfterInit(M, failing)
       IN  /\ Commit(m)
           /\ last' = Call("Wh_ModAfterInit", FALSE, "", 0, m.trace)
    /\ phase' = "running"
    /\ UNCHANGED <<exePath, moduleFileNameOk, registry, uxtheme, pending, threads>>

\* Wh_ModUninit; the framework removes the hooks afterwards.
OnUnload(failing) ==
    /\ phase = "running"
    /\ failing \subseteq SetTargets
    /\ LET m == Wh_ModUninit(M, failing)
       IN  /\ Commit(m)
           /\ last' = Call("Wh_ModUninit", FALSE, "", 0, m.trace)
    /\ phase' = "unloaded_again"
    /\ UNCHANGED <<exePath, moduleFileNameOk, registry, uxtheme, pending, threads>>

\* A window procedure of the process passes a message to DefWindowProcW.
CallDefWindowProcW(hWnd, Msg, lResult, failing) ==
    /\ Loaded
    /\ IsWindow(windows, hWnd) /\ windows[hWnd].pid = "self"
    /\ failing \subseteq SetTargets
    /\ failing # {} => (DefWindowProc_orig /\ Msg # WM_OTHER)
    /\ LET hooked == Loaded /\ DefWindowProc_orig
           r == IF hooked THEN DefWindowProc_hook(M, hWnd, Msg, lResult, failing)
                ELSE DefWindowProcW(M, hWnd, Msg, lResult)
       IN  /\ Commit(r.m)
           /\ last' = Call("DefWindowProcW", hooked, Msg, r.ret, r.m.trace)
    /\ pending' = (pending /\ Msg = WM_OTHER)
    /\ UNCHANGED <<phase, exePath, moduleFileNameOk, registry, uxtheme, threads>>

\* The process creates a window: a call of NtUserCreateWindowEx.
CallNtUserCreateWindowEx(args, hNew, failing) ==
    /\ phase # "unloaded_again"
    /\ hNew = NULL \/ (hNew \in FreeHandles /\ \A h \in FreeHandles : hNew <= h)
    /\ failing \subseteq {hNew} \ {NULL}
    /\ failing # {} => (Loaded /\ NtUserCreateWindowEx_orig)
    /\ LET hooked == Loaded /\ NtUserCreateWindowEx_orig
           r == IF hooked THEN NtUserCreateWindowEx_hook(M, args, hNew, failing)
                ELSE NtUserCreateWindowEx(M, args, hNew)
       IN  /\ Commit(r.m)
           /\ last' = Call("NtUserCreateWindowEx", hooked, "", r.ret, r.m.trace)
    /\ UNCHANGED <<phase, exePath, moduleFileNameOk, registry, uxtheme, pending, threads>>

\* A window is destroyed; its handle becomes stale.
DestroyWindow(hWnd) ==
    /\ Loaded
    /\ IsWindow(windows, hWnd)
    /\ windows' = [windows EXCEPT ![hWnd] = NoWindow]
    /\ pending' = (pending /\ OwnTopLevel(windows') # {})
    /\ last' = NoCall
    /\ UNCHANGED <<g_isDarkMode, g_ShouldSystemUseDarkMode, isExcluded,
                   DefWindowProc_orig, NtUserCreateWindowEx_orig, phase, exePath,
                   moduleFileNameOk, registry, uxtheme, threads>>

\* Another process creates a captioned top-level window.
ForeignWindow(hNew) ==
    /\ phase # "unloaded_again"
    /\ hNew \in FreeHandles /\ \A h \in FreeHandles : hNew <= h
    /\ windows' = [windows EXCEPT ![hNew] =
                      [pid |-> "other", style |-> WS_CAPTION, exStyle |-> {},
                       parent |-> "Desktop", attr |-> FALSE]]
    /\ last' = NoCall
    /\ UNCHANGED <<g_isDarkMode, g_ShouldSystemUseDarkMode, isExcluded,
                   DefWindowProc_orig, NtUserCreateWindowEx_orig, phase, exePath,
                   moduleFileNameOk, registry, uxtheme, pending, threads>>

\* The user changes the theme: the persisted value or the answer of the
\* probe changes, and every top-level window is sent a notification.
ThemeSwitch(value) ==
    /\ Loaded
    /\ IF registry.status = "Ok"
       THEN /\ value # registry.value
            /\ registry' = [registry EXCEPT !.value = value]
            /\ uxtheme' = uxtheme
       ELSE /\ value = 0
            /\ registry' = registry
            /\ uxtheme' = IF uxtheme = "Dark" THEN "Light"
                          ELSE IF uxtheme = "Light" THEN "Dark" ELSE uxtheme
    /\ pending' = (OwnTopLevel(windows) # {})
    /\ last' = NoCall
    /\ UNCHANGED <<g_isDarkMode, g_ShouldSystemUseDarkMode, isExcluded,
                   DefWindowProc_orig, NtUserCreateWindowEx_orig, windows, phase,
                   exePath, moduleFileNameOk, threads>>

\* A step in which DwmSetWindowAttribute can fail on the windows of F only.
Step(F) ==
    \/ \E hook1Ok \in BOOLEAN, win32u \in Win32uOutcomes : OnLoad(hook1Ok, win32u)
    \/ \E failing \in SUBSET F : OnLoadComplete(failing)
    \/ \E failing \in SUBSET F : OnUnload(failing)
    \/ \E hWnd \in Handles, Msg \in Messages, lResult \in LResults,
          failing \in SUBSET F : CallDefWindowProcW(hWnd, Msg, lResult, failing)
    \/ \E args \in CreateArgs, hNew \in Handles \cup {NULL}, failing \in SUBSET F :
          CallNtUserCreateWindowEx(args, hNew, failing)
    \/ \E hWnd \in Handles : DestroyWindow(hWnd)
    \/ \E hNew \in Handles : ForeignWindow(hNew)
    \/ \E value \in RegistryValues : ThemeSwitch(value)

Next == Step(Handles)

Spec == Init /\ [][Next]_vars

\* The same program on a system where DwmSetWindowAttribute never fails.
NextReliable == Step({})

SpecReliable == Init /\ [][NextReliable]_vars

---------------------------------------------------------------------------
(* The handlers step by step.  Several threads of the process run a message *)
(* loop; a theme-change notification is handled by DefWindowProc_hook on    *)
(* the thread it is delivered to, and the globals and the windows are       *)
(* shared.  A handler is followed from one access of shared state to the    *)
(* next: the position of thread t is threads[t].pc, named after the line    *)
(* it is about to run, with the locals newDarkMode (214), useDarkMode (185) *)
(* and the handles EnumWindows still has to pass to the callback.  A window *)
(* is created and destroyed by the thread that owns it, between two of its  *)
(* calls; a creation is one step.  DwmSetWindowAttribute succeeds on every  *)
(* live window here.                                                        *)

\* The thread a window belongs to.
Owner(h) == ((h - 1) % NumThreads) + 1

\* Lines 187-196: the callback goes on to ApplyDarkMode.
EnumWindowsProc_Passes(win, hWnd) ==
    /\ win[hWnd].parent = "Desktop"
    /\ IsWindow(win, hWnd) /\ win[hWnd].pid = "self"

\* ApplyDarkMode going on to the attribute without the eligibility check.
ApplyDarkMode_Enter_Unchecked(win, th) ==
    [th EXCEPT !.pc = "DwmSetWindowAttribute"]

\* Lines 153-154: ApplyDarkMode returns to the enumeration when
\* IsWindowEligible rejects the handle.
ApplyDarkMode_Enter(win, th) ==
    IF IsWindowEligible(win, th.hWnd)
    THEN [th EXCEPT !.pc = "DwmSetWindowAttribute"]
    ELSE [th EXCEPT !.pc = "EnumWindowsProc", !.hWnd = NULL]

\* The mod is loaded with both hooks in a process it does not exclude, the
\* post-load sweep is done, the cached theme is the theme of the system and
\* the process has no window yet.
InitThreads ==
    /\ registry \in [status : {"Ok"}, value : {0, 1}]
    /\ g_isDarkMode = (registry.value = 0)
    /\ g_ShouldSystemUseDarkMode = FALSE
    /\ isExcluded = 0
    /\ DefWindowProc_orig = TRUE
    /\ NtUserCreateWindowEx_orig = TRUE
    /\ windows = [h \in Handles |-> NoWindow]
    /\ phase = "running"
    /\ exePath \in ExePaths \ {SystemSettingsPath, ApplicationFrameHostPath}
    /\ moduleFileNameOk = TRUE
    /\ uxtheme = "Light"
    /\ pending = FALSE
    /\ last = NoCall
    /\ threads = [t \in Threads |-> Idle]

UnchangedByThreadStep ==
    UNCHANGED <<isExcluded, DefWindowProc_orig, NtUserCreateWindowEx_orig, phase,
                exePath, moduleFileNameOk, registry, uxtheme, pending>>

\* Lines 213-214: a theme-change notification reaches DefWindowProc_hook on
\* thread t, which reads the theme of the system.
ThreadNotify(t, Msg) ==
    /\ threads[t].pc = "idle"
    /\ Loaded /\ DefWindowProc_orig
    /\ Msg = WM_DWMCOLORIZATIONCOLORCHANGED \/ Msg = WM_SETTINGCHANGE
    /\ ~IsProcessExcluded(M).ret
    /\ LET o == IsSystemDarkMode(M)
       IN  /\ threads' = [threads EXCEPT ![t].pc = "compare", ![t].newDarkMode = o.ret]
           /\ g_ShouldSystemUseDarkMode' = o.m.g_ShouldSystemUseDarkMode
    /\ last' = NoCall
    /\ UNCHANGED <<g_isDarkMode, windows>>
    /\ UnchangedByThreadStep

\* Line 216: the comparison with the cached theme; when equal, the original
\* and the return (226).
ThreadCompare(t) ==
    /\ threads[t].pc = "compare"
    /\ threads' = [threads EXCEPT ![t] =
                      IF threads[t].newDarkMode # g_isDarkMode
                      THEN [@ EXCEPT !.pc = "store"]
                      ELSE Idle]
    /\ last' = NoCall
    /\ UNCHANGED <<g_isDarkMode, g_ShouldSystemUseDarkMode, windows>>
    /\ UnchangedByThreadStep

\* Line 217: the store.
ThreadStore(t) ==
    /\ threads[t].pc = "store"
    /\ g_isDarkMode' = threads[t].newDarkMode
    /\ threads' = [threads EXCEPT ![t].pc = "sweep", ![t].newDarkMode = FALSE]
    /\ last' = NoCall
    /\ UNCHANGED <<g_ShouldSystemUseDarkMode, windows>>
    /\ UnchangedByThreadStep

\* Lines 222 and 204: the cached theme is read as the argument and
\* EnumWindows lists the top-level windows.
ThreadSweep(t) ==
    /\ threads[t].pc = "sweep"
    /\ threads' = [threads EXCEPT ![t].pc = "EnumWindowsProc",
                                  ![t].useDarkMode = g_isDarkMode,
                                  ![t].todo = EnumWindows(windows)]
    /\ last' = NoCall
    /\ UNCHANGED <<g_isDarkMode, g_ShouldSystemUseDarkMode, windows>>
    /\ UnchangedByThreadStep

\* Lines 184-198: the callback on the next handle; after the last one the
\* original and the return (226).
ThreadEnumWindowsProc(t) ==
    /\ threads[t].pc = "EnumWindowsProc"
    /\ threads' = [threads EXCEPT ![t] =
                      IF threads[t].todo = <<>> THEN Idle
                      ELSE IF EnumWindowsProc_Passes(windows, Head(threads[t].todo))
                      THEN [@ EXCEPT !.pc = "ApplyDarkMode",
                                     !.hWnd = Head(threads[t].todo),
                                     !.todo = Tail(threads[t].todo)]
                      ELSE [@ EXCEPT !.todo = Tail(threads[t].todo)]]
    /\ last' = NoCall
    /\ UNCHANGED <<g_isDarkMode, g_ShouldSystemUseDarkMode, windows>>
    /\ UnchangedByThreadStep

\* Lines 153-154.
ThreadApplyDarkMode(t) ==
    /\ threads[t].pc = "ApplyDarkMode"
    /\ threads' = [threads EXCEPT ![t] = ApplyDarkMode_Enter(windows, @)]
    /\ last' = Call("IsWindowEligible", TRUE, "",
                    B(IsWindowEligible(windows, threads[t].hWnd)),
                    <<Ev("IsWindowEligible", threads[t].hWnd,
                         B(IsWindowEligible(windows, threads[t].hWnd)))>>)
    /\ UNCHANGED <<g_isDarkMode, g_ShouldSystemUseDarkMode, windows>>
    /\ UnchangedByThreadStep

\* Lines 157-160: the call fails on a handle that is no window any more.
ThreadDwmSetWindowAttribute(t) ==
    /\ threads[t].pc = "DwmSetWindowAttribute"
    /\ IF IsWindow(windows, threads[t].hWnd)
       THEN /\ windows' = [windows EXCEPT ![threads[t].hWnd].attr = threads[t].useDarkMode]
            /\ threads' = [threads EXCEPT ![t].pc = "SetWindowPos"]
       ELSE /\ windows' = windows
            /\ threads' = [threads EXCEPT ![t].pc = "EnumWindowsProc", ![t].hWnd = NULL]
    /\ last' = NoCall
    /\ UNCHANGED <<g_isDarkMode, g_ShouldSystemUseDarkMode>>
    /\ UnchangedByThreadStep

\* Lines 162-163.
ThreadSetWindowPos(t) ==
    /\ threads[t].pc = "SetWindowPos"
    /\ threads' = [threads EXCEPT ![t].pc = "EnumWindowsProc", ![t].hWnd = NULL]
    /\ last' = NoCall
    /\ UNCHANGED <<g_isDarkMode, g_ShouldSystemUseDarkMode, windows>>
    /\ UnchangedByThreadStep

\* Lines 238-255: the thread that owns the handle creates a captioned
\* top-level window, between two of its calls.
ThreadCreateWindow(hNew) ==
    /\ threads[Owner(hNew)].pc = "idle"
    /\ Loaded /\ NtUserCreateWindowEx_orig
    /\ hNew \in FreeHandles
    /\ LET r == NtUserCreateWindowEx_hook(
                    M, [style |-> WS_CAPTION, exStyle |-> {}, parent |-> "Desktop"],
                    hNew, {})
       IN  Commit(r.m)
    /\ last' = NoCall
    /\ UNCHANGED <<phase, exePath, moduleFileNameOk, registry, uxtheme, pending, threads>>

\* The thread that owns a window destroys it, between two of its calls.
ThreadDestroyWindow(hWnd) ==
    /\ threads[Owner(hWnd)].pc = "idle"
    /\ IsWindow(windows, hWnd) /\ windows[hWnd].pid = "self"
    /\ windows' = [windows EXCEPT ![hWnd] = NoWindow]
    /\ last' = NoCall
    /\ UNCHANGED <<g_isDarkMode, g_ShouldSystemUseDarkMode, threads>>
    /\ UnchangedByThreadStep

\* The user switches between dark and light.
ThreadsThemeSwitch ==
    /\ registry' = [registry EXCEPT !.value = 1 - @]
    /\ last' = NoCall
    /\ UNCHANGED <<g_isDarkMode, g_ShouldSystemUseDarkMode, isExcluded,
                   DefWindowProc_orig, NtUserCreateWindowEx_orig, windows, phase,
                   exePath, moduleFileNameOk, uxtheme, pending, threads>>

NextThreads ==
    \/ \E t \in Threads, Msg \in Messages : ThreadNotify(t, Msg)
    \/ \E t \in Threads : ThreadCompare(t)
    \/ \E t \in Threads : ThreadStore(t)
    \/ \E t \in Threads : ThreadSweep(t)
    \/ \E t \in Threads : ThreadEnumWindowsProc(t)
    \/ \E t \in Threads : ThreadApplyDarkMode(t)
    \/ \E t \in Threads : ThreadDwmSetWindowAttribute(t)
    \/ \E t \in Threads : ThreadSetWindowPos(t)
    \/ \E hNew \in Handles : ThreadCreateWindow(hNew)
    \/ \E hWnd \in Handles : ThreadDestroyWindow(hWnd)
    \/ ThreadsThemeSwitch

SpecThreads == InitThreads /\ [][NextThreads]_vars

---------------------------------------------------------------------------
(* Vocabulary of the properties. *)

ThemeMessages == {WM_DWMCOLORIZATIONCOLORCHANGED, WM_SETTINGCHANGE}

\* The paths of ExePaths whose base name is on the denylist, whatever the case.
DenylistedPaths == {SystemSettingsPath, ApplicationFrameHostPath}

\* A window with a title bar: both bits of WS_CAPTION.
HasCaption(w) == WS_CAPTION \subseteq w.style

\* Live, captioned, not a tool window, not a child window.
Eligible(win, h) ==
    /\ h \in Handles
    /\ win[h].pid # "dead"
    /\ HasCaption(win[h])
    /\ "WS_EX_TOOLWINDOW" \notin win[h].exStyle
    /\ "WS_CHILD" \notin win[h].style

\* An eligible top-level window of the current process.
EligibleTopLevelOwn(win, h) ==
    Eligible(win, h) /\ win[h].pid = "self" /\ win[h].parent = "Desktop"

\* Positions of the events e of a trace, and of those on window h.
Events(t, e) == {i \in DOMAIN t : t[i].e = e}
EventsOn(t, e, h) == {i \in DOMAIN t : t[i].e = e /\ t[i].w = h}

SetCalls(t) == Events(t, "DwmSetWindowAttribute")
SetCallsOn(t, h) == EventsOn(t, "DwmSetWindowAttribute", h)

\* The theme the system is in, as the sources the mod reads tell it.
SystemDark ==
    IF registry.status = "Ok" THEN registry.value = 0 ELSE uxtheme = "Dark"

ThemeCallReturned == last.op = "DefWindowProcW" /\ last.hooked /\ last.msg \in ThemeMessages

---------------------------------------------------------------------------
\* C1: when the default-message hook handles a theme-change notification in a
\* non-excluded process, a resolved theme equal to the cached one makes no
\* attribute-set call; a different one updates the cache and makes exactly one
\* attribute-set call for each eligible top-level window of the process.
C1_ThemeChangeSweep ==
    [][ (ThemeCallReturned' /\ isExcluded' = 0) =>
          /\ Cardinality(Events(last'.trace, "IsSystemDarkMode")) = 1
          /\ \A i \in Events(last'.trace, "IsSystemDarkMode") :
                IF last'.trace[i].v = B(g_isDarkMode)
                THEN /\ SetCalls(last'.trace) = {}
                     /\ g_isDarkMode' = g_isDarkMode
                ELSE /\ B(g_isDarkMode') = last'.trace[i].v
                     /\ \A h \in Handles :
                           EligibleTopLevelOwn(windows, h) =>
                               Cardinality(SetCallsOn(last'.trace, h)) = 1 ]_vars

\* A theme-change notification has resolved a new theme and an eligible
\* top-level window of the process has been restyled.
C1_Witness ==
    /\ ThemeCallReturned
    /\ Events(last.trace, "g_isDarkMode") # {}
    /\ \E h \in Handles :
          EligibleTopLevelOwn(windows, h) /\ Cardinality(SetCallsOn(last.trace, h)) = 1

\* C2: a window created through the creation hook in an eligible configuration
\* gets exactly one attribute-set call, with the cached theme of that moment,
\* after the original creation and inside the call, with no enumeration.
C2_NewWindowStyledOnce ==
    [][ (/\ last'.op = "NtUserCreateWindowEx" /\ last'.hooked
         /\ last'.ret # NULL /\ Eligible(windows', last'.ret)) =>
          /\ Cardinality(SetCalls(last'.trace)) = 1
          /\ \A i \in SetCalls(last'.trace) :
                /\ last'.trace[i].w = last'.ret
                /\ last'.trace[i].v = B(g_isDarkMode)
                /\ \E j \in Events(last'.trace, "NtUserCreateWindowEx_orig") : j < i
          /\ Events(last'.trace, "EnumWindows") = {} ]_vars

\* An eligible window has been created through the hook while the cache is dark.
C2_Witness ==
    /\ last.op = "NtUserCreateWindowEx" /\ last.hooked
    /\ last.ret # NULL /\ Eligible(windows, last.ret)
    /\ g_isDarkMode
    /\ \E i \in SetCalls(last.trace) : last.trace[i].v = 1

\* What the original returned in the call that has just returned.
OrigResults(t) ==
    {t[i].v : i \in Events(t, "DefWindowProc_orig")}
        \cup {t[i].w : i \in Events(t, "NtUserCreateWindowEx_orig")}

NothingStyledAndTransparent ==
    /\ SetCalls(last.trace) = {}
    /\ last.op \in {"DefWindowProcW", "NtUserCreateWindowEx"} =>
          /\ Cardinality(Events(last.trace, "DefWindowProc_orig")
                            \cup Events(last.trace, "NtUserCreateWindowEx_orig")) = 1
          /\ OrigResults(last.trace) = {last.ret}

C4_UnloadClears ==
    (last.op = "Wh_ModUninit" /\ exePath \notin DenylistedPaths) =>
        \A h \in Handles :
            IF EligibleTopLevelOwn(windows, h)
            THEN /\ Cardinality(SetCallsOn(last.trace, h)) = 1
                 /\ \A i \in SetCallsOn(last.trace, h) : last.trace[i].v = 0
            ELSE SetCallsOn(last.trace, h) = {}

\* C5: on a window that is a null or dead handle, lacks a caption, is a tool
\* window or is a child window, ApplyDarkMode sets no attribute and requests
\* no redraw.
C5_IneligibleUntouched ==
    \A i \in DOMAIN last.trace :
        last.trace[i].e \in {"DwmSetWindowAttribute", "SetWindowPos"} =>
            Eligible(windows, last.trace[i].w)

\* What C6 says IsSystemDarkMode returns.
ExpectedTheme ==
    IF registry.status = "Ok" THEN (IF registry.value = 0 THEN 1 ELSE 0)
    ELSE IF uxtheme \in {"Dark", "Light"} THEN (IF uxtheme = "Dark" THEN 1 ELSE 0)
    ELSE 0

\* C6: IsSystemDarkMode returns dark for the persisted value 0, light for any
\* other value, the answer of the probe when the read fails and the probe is
\* available, light when neither is available; by itself it changes neither
\* the cached theme nor a window attribute.
C6_ThemeOracle ==
    [][ \A i \in Events(last'.trace, "IsSystemDarkMode") :
          /\ last'.trace[i].v = ExpectedTheme
          /\ Events(last'.trace, "g_isDarkMode") = {} => g_isDarkMode' = g_isDarkMode
          /\ SetCalls(last'.trace) = {} =>
                \A h \in Handles : windows'[h].attr = windows[h].attr ]_vars

\* The read has failed and the probe has answered dark.
C6_Witness ==
    /\ registry.status # "Ok" /\ uxtheme = "Dark"
    /\ \E i \in Events(last.trace, "IsSystemDarkMode") : last.trace[i].v = 1
    /\ Events(last.trace, "ShouldSystemUseDarkMode") # {}

\* Post-initialization sweep done, no call in progress, no undelivered
\* theme-change notification, both hooks installed.
Quiescent ==
    /\ phase = "running"
    /\ ~pending
    /\ DefWindowProc_orig /\ NtUserCreateWindowEx_orig

\* C7: in a non-excluded process, whenever the system is quiescent, every
\* eligible top-level window of the process has its attribute equal to the
\* current system theme.
C7_AttributeFollowsSystemTheme ==
    (Quiescent /\ exePath \notin DenylistedPaths) =>
        \A h \in Handles :
            EligibleTopLevelOwn(windows, h) => windows[h].attr = SystemDark

\* C8: the creation hook calls the original exactly once, first, and returns
\* its result; after a null result no eligibility check and no attribute-set
\* call follows.
C8_CreateDelegatesFirst ==
    (last.op = "NtUserCreateWindowEx" /\ last.hooked) =>
        /\ Events(last.trace, "NtUserCreateWindowEx_orig") = {1}
        /\ last.ret = last.trace[1].w
        /\ last.ret = NULL =>
              /\ Events(last.trace, "IsWindowEligible") = {}
              /\ SetCalls(last.trace) = {}

\* The original has failed inside the hook.
C8_Witness ==
    last.op = "NtUserCreateWindowEx" /\ last.hooked /\ last.ret = NULL

\* C9: the default-message hook calls the original exactly once for every
\* message, after any re-query, cache update and sweep, and returns its value.
C9_DefWindowProcDelegatesLast ==
    (last.op = "DefWindowProcW" /\ last.hooked) =>
        /\ Events(last.trace, "DefWindowProc_orig") = {Len(last.trace)}
        /\ last.ret = last.trace[Len(last.trace)].v

\* A theme-change notification has swept the windows and the original has
\* returned 1.
C9_Witness ==
    /\ ThemeCallReturned
    /\ SetCalls(last.trace) # {}
    /\ last.ret = 1

\* C10: Wh_ModInit reports success whatever happens; in a non-excluded process
\* both installations are attempted, the second whenever the creation
\* primitive is resolved, whether or not the first succeeded.
C10_LoadAlwaysSucceeds ==
    last.op = "Wh_ModInit" =>
        /\ last.ret = 1
        /\ isExcluded = 0 =>
              /\ Cardinality(Events(last.trace, "Wh_SetFunctionHook:DefWindowProcW")) = 1
              /\ (Events(last.trace, "GetModuleHandleW:win32u") = {}
                    /\ Events(last.trace, "GetProcAddress:NtUserCreateWindowEx") = {}) =>
                    Cardinality(Events(last.trace, "Wh_SetFunctionHook:NtUserCreateWindowEx")) = 1

\* The first installation has failed and the second has been attempted.
C10_Witness ==
    /\ last.op = "Wh_ModInit"
    /\ \E i \in Events(last.trace, "Wh_SetFunctionHook:DefWindowProcW") : last.trace[i].v = 0
    /\ Events(last.trace, "Wh_SetFunctionHook:NtUserCreateWindowEx") # {}

SweepDark(win, failing) ==
    ApplyToAllWindows([M EXCEPT !.windows = win], TRUE, failing).windows

Attributes(win) == [h \in Handles |-> win[h].attr]

ResolveEvents(t) == Events(t, "GetModuleHandleW") \cup Events(t, "GetProcAddress")

C15_BurstSweepsOnce ==
    [][ (ThemeCallReturned /\ ThemeCallReturned' /\ isExcluded' = 0) =>
          /\ Events(last'.trace, "g_isDarkMode") = {}
          /\ Events(last'.trace, "EnumWindows") = {}
          /\ SetCalls(last'.trace) = {}
          /\ g_isDarkMode' = g_isDarkMode ]_vars

\* A notification has found the theme the cache already holds, dark, with an
\* eligible top-level window of the process already dark.
C15_Witness ==
    /\ ThemeCallReturned /\ isExcluded = 0
    /\ Events(last.trace, "IsSystemDarkMode") # {}
    /\ Events(last.trace, "EnumWindows") = {}
    /\ g_isDarkMode /\ SystemDark
    /\ \E h \in Handles : EligibleTopLevelOwn(windows, h) /\ windows[h].attr

\* An attribute-set call on h that failed: no redraw follows it.
FailedSetOn(t, h) ==
    \E i \in SetCallsOn(t, h) : (i + 1) \notin EventsOn(t, "SetWindowPos", h)

\* C16: a failed attribute-set call leaves the attribute as it was, with no
\* redraw and no second call; the next window creation or theme-change
\* notification the hooks handle brings the attribute of that window to the
\* cached theme.
C16_FailureThenReconverge ==
    [][ \A h \in Handles :
          /\ FailedSetOn(last'.trace, h) =>
                /\ windows'[h].attr = windows[h].attr
                /\ EventsOn(last'.trace, "SetWindowPos", h) = {}
                /\ Cardinality(SetCallsOn(last'.trace, h)) = 1
          /\ (/\ FailedSetOn(last.trace, h)
              /\ EligibleTopLevelOwn(windows, h)
              /\ last'.hooked
              /\ (last'.op = "NtUserCreateWindowEx" /\ last'.ret # NULL)
                    \/ ThemeCallReturned'
              /\ \A k \in Handles : ~FailedSetOn(last'.trace, k)) =>
                windows'[h].attr = g_isDarkMode' ]_vars

\* C17 as stated: the cached theme is written by the theme-change handler
\* alone.
C17_Original ==
    [][ (g_isDarkMode' # g_isDarkMode \/ Events(last'.trace, "g_isDarkMode") # {}) =>
          ThemeCallReturned' ]_vars

\* C17 as amended: after the store of Wh_ModInit the cached theme is written
\* by the theme-change handler alone, and only with a resolved theme that
\* differs from it; creation, post-load sweep and unload leave it as it is.
C17_CacheWrittenByHandlerOnly ==
    [][ last'.op # "Wh_ModInit" =>
          /\ ~ThemeCallReturned' =>
                (g_isDarkMode' = g_isDarkMode /\ Events(last'.trace, "g_isDarkMode") = {})
          /\ \A i \in Events(last'.trace, "g_isDarkMode") :
                /\ last'.trace[i].v # B(g_isDarkMode)
                /\ last'.trace[i].v = B(g_isDarkMode')
                /\ \E j \in Events(last'.trace, "IsSystemDarkMode") :
                      j < i /\ last'.trace[j].v = last'.trace[i].v
          /\ Events(last'.trace, "g_isDarkMode") = {} => g_isDarkMode' = g_isDarkMode ]_vars

\* The unload has cleared a window while the cached theme is still dark.
C17_Witness ==
    /\ last.op = "Wh_ModUninit"
    /\ SetCalls(last.trace) # {}
    /\ g_isDarkMode

AcceptedAtCreation(win) ==
    {h \in Handles : win[h].pid = "self" /\ IsWindow(win, h) /\ IsWindowEligible(win, h)}

AcceptedBySweep(win) ==
    {h \in Handles :
        SetCallsOn(ApplyToAllWindows([M EXCEPT !.windows = win], TRUE, {}).trace, h) # {}}

\* C20: every window the creation path styles is a window a sweep styles.
C20_CreationWithinSweep ==
    AcceptedAtCreation(windows) \subseteq AcceptedBySweep(windows)

\* No thread is inside a hook.
AllIdle == \A t \in Threads : threads[t] = Idle

\* C13: however the handlers of theme-change notifications interleave on the
\* threads of the process, and whenever the theme changes between their
\* reads, once all of them have returned every eligible top-level window of
\* the process has its attribute equal to the cached theme.
C13_RaceIsBenign ==
    AllIdle =>
        \A h \in Handles :
            EligibleTopLevelOwn(windows, h) => windows[h].attr = g_isDarkMode

\* Thread t makes the call its position names.
Issues(t, call) == threads[t].pc = call /\ threads'[t].pc # call

\* C18 as stated: the attribute setter and the redraw request are never
\* issued on a handle that is no live window when the call is made.
C18_Original ==
    [][ \A t \in Threads :
          (Issues(t, "DwmSetWindowAttribute") \/ Issues(t, "SetWindowPos")) =>
              IsWindow(windows, threads[t].hWnd) ]_vars

\* C18 as amended: the setter is issued only on a handle that IsWindowEligible
\* has just found to be a live window, in the same call of ApplyDarkMode, and
\* the redraw only after the setter succeeded on that handle; a handle that is
\* stale when IsWindowEligible looks at it gets neither.
C18_StaleRejectedAtCheck ==
    [][ \A t \in Threads :
          /\ (threads'[t].pc = "DwmSetWindowAttribute" /\ threads'[t] # threads[t]) =>
                /\ Issues(t, "ApplyDarkMode")
                /\ IsWindow(windows, threads[t].hWnd)
                /\ threads'[t].hWnd = threads[t].hWnd
          /\ (threads'[t].pc = "SetWindowPos" /\ threads'[t] # threads[t]) =>
                /\ Issues(t, "DwmSetWindowAttribute")
                /\ IsWindow(windows, threads[t].hWnd)
                /\ threads'[t].hWnd = threads[t].hWnd
          /\ (Issues(t, "ApplyDarkMode") /\ ~IsWindow(windows, threads[t].hWnd)) =>
                threads'[t].pc = "EnumWindowsProc" ]_vars

\* During a sweep IsWindowEligible has rejected a handle whose window was
\* destroyed after the callback had found it to belong to the process.
C18_Witness ==
    /\ last.op = "IsWindowEligible" /\ last.ret = 0
    /\ \A i \in DOMAIN last.trace : ~IsWindow(windows, last.trace[i].w)
    /\ \E t \in Threads : threads[t].pc = "EnumWindowsProc"

====
